---- MODULE Spec2Model ----
(***************************************************************************)
(* Model of the Freshdesk ticket viewer: the upstream client               *)
(* (src/lib/freshdesk-api.ts), the four proxy route handlers               *)
(* (tickets, conversations, attachments, search) with their payload       *)
(* transformations, and the dashboard's data-loading hook.                 *)
(*                                                                         *)
(* Strings are sequences of atoms.  Digits are single-character atoms, so  *)
(* that the substring test for "404" is computed over the digits of the    *)
(* message; every literal piece of a message is one atom spelled as in the *)
(* source.                                                                 *)
(***************************************************************************)
EXTENDS Integers, Sequences, FiniteSets

\* ------------------------------------------------------------------ bounds
MaxIdLen == 3      \* longest id path parameter
MaxQueryLen == 2   \* longest search query
MaxDomainLen == 3  \* longest configured domain, in pieces
MaxKeyLen == 2     \* longest configured API key, in characters

\* --------------------------------------------------------------- alphabets
DigitChars == {"0", "1", "2", "3", "4", "5", "6", "7", "8", "9"}
IdChars == {"0", "4", "-", "a"}
QueryAtoms == {"0", "4", "/tickets/", "a"}

SeqsUpTo(S, n) == UNION {[1..k -> S] : k \in 0..n}

None == [has |-> FALSE, v |-> <<>>]
Some(x) == [has |-> TRUE, v |-> x]

\* ------------------------------------------------------- numbers <-> text
NaN == [nan |-> TRUE, val |-> 0]
Num(n) == [nan |-> FALSE, val |-> n]

DigitVal(c) ==
  CASE c = "0" -> 0 [] c = "1" -> 1 [] c = "2" -> 2 [] c = "3" -> 3
    [] c = "4" -> 4 [] c = "5" -> 5 [] c = "6" -> 6 [] c = "7" -> 7
    [] c = "8" -> 8 [] c = "9" -> 9

DigitChar(n) == <<"0", "1", "2", "3", "4", "5", "6", "7", "8", "9">>[n + 1]

RECURSIVE DigitPrefix(_)
DigitPrefix(s) ==
  IF s = <<>> \/ Head(s) \notin DigitChars
  THEN <<>>
  ELSE <<Head(s)>> \o DigitPrefix(Tail(s))

RECURSIVE DecValue(_)
DecValue(ds) ==
  IF ds = <<>>
  THEN 0
  ELSE DecValue(SubSeq(ds, 1, Len(ds) - 1)) * 10 + DigitVal(ds[Len(ds)])

\* Number.parseInt: optional sign, then the longest run of decimal digits;
\* NaN when there is none.  (The alphabets carry no "x" and no white space,
\* so the hexadecimal prefix and the leading-blank skip cannot arise.)
ParseInt(s) ==
  LET signed == s # <<>> /\ Head(s) \in {"-", "+"}
      neg == s # <<>> /\ Head(s) = "-"
      rest == IF signed THEN Tail(s) ELSE s
      ds == DigitPrefix(rest)
  IN IF ds = <<>>
     THEN NaN
     ELSE Num(IF neg THEN 0 - DecValue(ds) ELSE DecValue(ds))

\* !x for a number x: NaN and 0 are falsy
FalsyOnlyNaN(t) == t.nan
Falsy(t) == t.nan \/ t.val = 0

RECURSIVE NatDigits(_)
NatDigits(n) ==
  IF n < 10
  THEN <<DigitChar(n)>>
  ELSE NatDigits(n \div 10) \o <<DigitChar(n % 10)>>

\* template interpolation `${n}` of a number
NumToString(n) == IF n < 0 THEN <<"-">> \o NatDigits(0 - n) ELSE NatDigits(n)

\* ------------------------------------------------------------ String.includes
NotFoundAtoms ==
  {"not found", " not found", " not found or no conversations available"}
FetchFailedAtoms == {"fetch failed"}

Includes(msg, needle) ==
  CASE needle = "404" ->
         \E i \in 1..(Len(msg) - 2) :
            msg[i] = "4" /\ msg[i + 1] = "0" /\ msg[i + 2] = "4"
    [] needle = "not found" -> \E i \in DOMAIN msg : msg[i] \in NotFoundAtoms
    [] needle = "fetch failed" ->
         \E i \in DOMAIN msg : msg[i] \in FetchFailedAtoms


\* ------------------------------------------------------------ configuration
\* freshdeskConfig (process.env.FRESHDESK_DOMAIN || "", ...API_KEY || ""):
\* an unset variable and an empty one are both "".
Domains == {"", "your-domain", "acme"}
ApiKeys == {"", "your-api-key", "k"}
Configs == [domain : Domains, apiKey : ApiKeys]

\* ------------------------------------------- payloads and their normalisation
\* a numeric field of a payload: absent (undefined or null), or a number
Missing == [has |-> FALSE, v |-> 0]
Given(n) == [has |-> TRUE, v |-> n]

\* field === n
StrictEq(field, n) == field.has /\ field.v = n

\* a || b, for a text field that may be absent and a text b
OrElse(a, b) == IF a.has /\ a.v # <<>> THEN a.v ELSE b

\* person?.name and person?.email, for a sub-record that may be absent
NoPerson == [has |-> FALSE, v |-> [name |-> None, email |-> None]]
Person(name, email) == [has |-> TRUE, v |-> [name |-> name, email |-> email]]
NameOf(person) == IF person.has THEN person.v.name ELSE None
EmailOf(person) == IF person.has THEN person.v.email ELSE None

\* the fields of an upstream ticket that the transformation decides on
RawTicket(status, priority, requester, responder_id, responder) ==
  [status |-> status, priority |-> priority, requester |-> requester,
   responder_id |-> responder_id, responder |-> responder]
EmptyRawTicket == RawTicket(Missing, Missing, NoPerson, Missing, NoPerson)

StatusCodes == {Missing} \cup {Given(n) : n \in 0..6}
PriorityCodes == {Missing} \cup {Given(n) : n \in 0..5}
ResponderIds == {Missing, Given(0), Given(7)}
Requesters ==
  {NoPerson, Person(None, None),
   Person(Some(<<"Bob">>), Some(<<"bob", "@", "example.com">>))}
Responders ==
  {NoPerson, Person(None, None), Person(Some(<<>>), Some(<<>>)),
   Person(Some(<<"Ann">>), Some(<<"ann", "@", "example.com">>))}
RawTickets ==
  {RawTicket(s, p, q, i, r) :
     s \in StatusCodes, p \in PriorityCodes, q \in Requesters,
     i \in ResponderIds, r \in Responders}
\* the tickets the upstream answers with in a request
SampleTickets ==
  {EmptyRawTicket,
   RawTicket(Given(3), Given(4),
             Person(Some(<<"Bob">>), Some(<<"bob", "@", "example.com">>)),
             Given(7), Person(None, None))}

\* ticket route, lines 43-52, status decoded with the codes shifted by one
StatusNameFromOne(status) ==
  IF StrictEq(status, 1) THEN "open"
  ELSE IF StrictEq(status, 2) THEN "pending"
  ELSE IF StrictEq(status, 3) THEN "resolved"
  ELSE IF StrictEq(status, 4) THEN "closed"
  ELSE "open"
\* ticket route, lines 43-52
StatusName(status) ==
  IF StrictEq(status, 2) THEN "open"
  ELSE IF StrictEq(status, 3) THEN "pending"
  ELSE IF StrictEq(status, 4) THEN "resolved"
  ELSE IF StrictEq(status, 5) THEN "closed"
  ELSE "open"

\* ticket route, lines 53-62, with "low" for an unknown code
PriorityNameDefaultLow(priority) ==
  IF StrictEq(priority, 1) THEN "low"
  ELSE IF StrictEq(priority, 2) THEN "medium"
  ELSE IF StrictEq(priority, 3) THEN "high"
  ELSE IF StrictEq(priority, 4) THEN "urgent"
  ELSE "low"
\* ticket route, lines 53-62
PriorityName(priority) ==
  IF StrictEq(priority, 1) THEN "low"
  ELSE IF StrictEq(priority, 2) THEN "medium"
  ELSE IF StrictEq(priority, 3) THEN "high"
  ELSE IF StrictEq(priority, 4) THEN "urgent"
  ELSE "medium"

\* the agent sub-record of a transformed ticket: undefined, or a name and an
\* email, both texts
NoAgent == [has |-> FALSE, v |-> [name |-> <<>>, email |-> <<>>]]
AgentRecord(name, email) ==
  [has |-> TRUE, v |-> [name |-> name, email |-> email]]

\* the agent of a ticket with a responder sub-record, whatever responder_id is
AgentOfResponderRecord(ticketData) ==
  IF ticketData.responder.has
  THEN AgentRecord(OrElse(NameOf(ticketData.responder), <<"Unassigned">>),
                   OrElse(EmailOf(ticketData.responder), <<>>))
  ELSE NoAgent
\* ticket route, lines 69-75: ticketData.responder_id ? {...} : undefined
Agent(ticketData) ==
  IF ticketData.responder_id.has /\ ticketData.responder_id.v # 0
  THEN AgentRecord(OrElse(NameOf(ticketData.responder), <<"Unassigned">>),
                   OrElse(EmailOf(ticketData.responder), <<>>))
  ELSE NoAgent

\* ticket route, lines 39-79 (status, priority, requester, agent)
transformTicket(ticketData) ==
  [status |-> StatusName(ticketData.status),
   priority |-> PriorityName(ticketData.priority),
   requester |->
     [name |-> OrElse(NameOf(ticketData.requester), <<"Unknown">>),
      email |-> OrElse(EmailOf(ticketData.requester),
                       <<"unknown@example.com">>)],
   agent |-> Agent(ticketData)]
EmptyTicket ==
  [status |-> "", priority |-> "",
   requester |-> [name |-> <<>>, email |-> <<>>], agent |-> NoAgent]

\* the fields of an upstream conversation that decide on its author
RawConversation(user, from_email) == [user |-> user, from_email |-> from_email]
EmptyRawConversation == RawConversation(NoPerson, None)

SenderEmails ==
  {None, Some(<<>>), Some(<<"jane", "@", "example.com">>),
   Some(<<"@", "example.com">>), Some(<<"jane">>),
   Some(<<"j", ".", "d", "@", "a", "@", "b">>)}
Users ==
  {NoPerson, Person(None, None), Person(Some(<<>>), Some(<<>>)),
   Person(Some(<<"Jane Doe">>), Some(<<"jd", "@", "example.com">>))}
RawConversations == {RawConversation(u, e) : u \in Users, e \in SenderEmails}
\* the conversations the upstream answers with in a request
SampleConversations ==
  {RawConversation(Person(None, None), Some(<<"jane", "@", "example.com">>))}

\* smallest index of sep in s; 0 when there is none
FirstAt(s, sep) ==
  LET ks == {k \in 1..Len(s) : s[k] = sep}
  IN IF ks = {} THEN 0 ELSE CHOOSE k \in ks : \A m \in ks : k <= m

\* s.split(sep): the pieces of s between the occurrences of sep
RECURSIVE Split(_, _)
Split(s, sep) ==
  LET k == FirstAt(s, sep)
  IN IF k = 0
     THEN <<s>>
     ELSE <<SubSeq(s, 1, k - 1)>> \o Split(SubSeq(s, k + 1, Len(s)), sep)

\* conv.from_email?.split("@")[0]
SenderLocalPart(from_email) ==
  IF from_email.has THEN Some(Split(from_email.v, "@")[1]) ELSE None

\* conversations route, line 52, without the last fallback
AuthorNameNoUnknown(conv) ==
  OrElse(NameOf(conv.user), OrElse(SenderLocalPart(conv.from_email), <<>>))
\* conversations route, line 52
AuthorName(conv) ==
  OrElse(NameOf(conv.user),
         OrElse(SenderLocalPart(conv.from_email), <<"Unknown">>))

\* conversations route, lines 40-58 (the author)
transformConversation(conv) ==
  [user |-> [name |-> AuthorName(conv),
             email |-> OrElse(conv.from_email,
                              OrElse(EmailOf(conv.user), <<>>))]]
EmptyConversation == [user |-> [name |-> <<>>, email |-> <<>>]]

\* -------------------------------------------------- what the upstream answers
\* a body: its shape, and by shape the number of its elements, the
\* content-disposition header that came with it, the ticket (as sent, and as
\* transformed) and the conversations (as sent, and as transformed)
NoData == [shape |-> "none", len |-> 0, hdr |-> None,
           raw |-> EmptyRawTicket, norm |-> EmptyTicket,
           items |-> <<>>, normItems |-> <<>>]
Data(shape, n) == [NoData EXCEPT !.shape = shape, !.len = n]
TicketData(t) == [Data("ticket", 0) EXCEPT !.raw = t]
ArrayData(cs) == [Data("array", Len(cs)) EXCEPT !.items = cs]

\* error bodies the upstream may send with a non-success status
Bodies ==
  { <<>>, <<"x">>, <<"4", "0", "4">>, <<"4", "0">>, <<"x", "4", "0", "4", "x">>,
    <<"not found">>, <<"fetch failed">> }

\* content-disposition headers the upstream may send with an attachment
SampleHeaders ==
  { <<"attachment", ";", " ", "filename", "=", "\"", "report.pdf", "\"">>,
    <<"attachment", ";", " ", "filename", "=", "report.pdf">>,
    <<"attachment", ";", " ", "filename", "=", "'", "report.pdf", "'", ";", "x">>,
    <<"attachment", ";", " ", "filename", "=", "\"", "\"">>,
    <<"attachment", ";", " ", "filename", "*", "=", "report.pdf", ";", " ", "x">>,
    <<"filename", ";", "filename", "=", "\"", "report.pdf">>,
    <<"inline">> }

StatusText(status) ==
  CASE status = 200 -> "OK"
    [] status = 400 -> "Bad Request"
    [] status = 401 -> "Unauthorized"
    [] status = 404 -> "Not Found"
    [] status = 500 -> "Internal Server Error"

Outcome(kind, status, body, data, netmsg) ==
  [kind |-> kind, status |-> status, body |-> body, data |-> data,
   netmsg |-> netmsg]

NoOutcome == Outcome("none", 0, <<>>, NoData, "")
\* the timer aborts the fetch
Aborts == {Outcome("abort", 0, <<>>, NoData, "")}
\* the transport fails; the message is the runtime's
NetFails == {Outcome("netfail", 0, <<>>, NoData, m) :
               m \in {"fetch failed", "Failed to fetch"}}
\* a non-success status; the body text matters to the code only when the
\* status is neither 401 nor 404
HttpFails ==
  {Outcome("http", s, b, NoData, "") : s \in {401, 404}, b \in {<<>>}}
    \cup {Outcome("http", 500, b, NoData, "") : b \in Bodies}

\* a 2xx body; "badjson" is a body that is not JSON, "null" the JSON null
OkData(op) ==
  CASE op = "getTicket" ->
         {TicketData(t) : t \in SampleTickets}
           \cup {Data("null", 0), Data("badjson", 0)}
    [] op = "getConversations" ->
         {ArrayData(<<>>)} \cup {ArrayData(<<c>>) : c \in SampleConversations}
           \cup {Data("object", 0), Data("badjson", 0)}
    [] op = "getAttachment" ->
         {[Data("blob", 1) EXCEPT !.hdr = h] :
            h \in {None} \cup {Some(x) : x \in SampleHeaders}}
    [] op = "searchTickets" ->
         {Data("results", 0), Data("results", 2), Data("noresults", 0),
          Data("null", 0), Data("badjson", 0)}

Outcomes(op) ==
  Aborts \cup NetFails \cup HttpFails
    \cup {Outcome("http", 200, <<>>, d, "") : d \in OkData(op)}

\* response.ok
ResponseOk(status) == status >= 200 /\ status <= 299

\* ------------------------------------------------------ the client's requests
\* the characters an API key is made of; "U+03BB" is a character outside
\* Latin-1
KeyChars == {"k", "9", ":", "U+03BB"}

\* the code unit of a character
CharCode(c) ==
  CASE c = "9" -> 57 [] c = ":" -> 58 [] c = "X" -> 88 [] c = "k" -> 107
    [] c = "U+03BB" -> 955

Base64Chars ==
  <<"A", "B", "C", "D", "E", "F", "G", "H", "I", "J", "K", "L", "M", "N", "O",
    "P", "Q", "R", "S", "T", "U", "V", "W", "X", "Y", "Z", "a", "b", "c", "d",
    "e", "f", "g", "h", "i", "j", "k", "l", "m", "n", "o", "p", "q", "r", "s",
    "t", "u", "v", "w", "x", "y", "z", "0", "1", "2", "3", "4", "5", "6", "7",
    "8", "9", "+", "/">>

\* btoa(s) for s within Latin-1: every three bytes become four characters,
\* the last group padded with "="
Base64(s) ==
  LET n == Len(s)
      byte(i) == IF i <= n THEN CharCode(s[i]) ELSE 0
      groups == (n + 2) \div 3
      v(g) == byte(3 * g + 1) * 65536 + byte(3 * g + 2) * 256 + byte(3 * g + 3)
      ch(x) == Base64Chars[x + 1]
      group(g) ==
        <<ch(v(g) \div 262144), ch((v(g) \div 4096) % 64),
          IF 3 * g + 2 <= n THEN ch((v(g) \div 64) % 64) ELSE "=",
          IF 3 * g + 3 <= n THEN ch(v(g) % 64) ELSE "=">>
  IN [k \in 1..(4 * groups) |-> group((k - 1) \div 4)[((k - 1) % 4) + 1]]

\* btoa(s): throws InvalidCharacterError on a character outside Latin-1
Btoa(s) ==
  IF \E i \in 1..Len(s) : CharCode(s[i]) > 255 THEN None ELSE Some(Base64(s))

\* the headers of a request; None is a header not set
Headers(authorization, contentType) ==
  [Authorization |-> authorization, ContentType |-> contentType]
NoHeaders == Headers(None, None)

\* getAuthHeaders, with the credential sent as it is
getAuthHeadersPlain(apiKey) ==
  Some(Headers(Some(<<"Basic ">> \o apiKey \o <<":", "X">>),
               Some(<<"application/json">>)))
\* getAuthHeaders, lines 19-24; None when btoa throws
getAuthHeaders(apiKey) ==
  IF Btoa(apiKey \o <<":", "X">>).has
  THEN Some(Headers(Some(<<"Basic ">> \o Btoa(apiKey \o <<":", "X">>).v),
                    Some(<<"application/json">>)))
  ELSE None

\* getAttachment, lines 122-124: its own headers
AttachmentHeaders(apiKey) ==
  IF Btoa(apiKey \o <<":", "X">>).has
  THEN Some(Headers(Some(<<"Basic ">> \o Btoa(apiKey \o <<":", "X">>).v), None))
  ELSE None

\* s.replace(pattern, replacement) with a string pattern: the first occurrence
ReplaceFirst(s, pattern, replacement) ==
  IF FirstAt(s, pattern) = 0
  THEN s
  ELSE SubSeq(s, 1, FirstAt(s, pattern) - 1) \o replacement
         \o SubSeq(s, FirstAt(s, pattern) + 1, Len(s))

\* constructor, lines 13-17
BaseUrl(domain) ==
  <<"https://">> \o ReplaceFirst(domain, ".freshdesk.com", <<>>)
    \o <<".freshdesk.com/api/v2">>

\* URLSearchParams.toString() of one character of a value
FormEncode(c) ==
  CASE c = ":" -> "%3A" [] c = "@" -> "%40" [] OTHER -> c

\* the url each operation fetches: lines 27, 72, 121 and 196
UrlOf(op, base, id, query) ==
  CASE op = "getTicket" -> base \o <<"/tickets/">> \o NumToString(id)
    [] op = "getConversations" ->
         base \o <<"/tickets/">> \o NumToString(id)
           \o <<"/conversations?page=", "1", "&per_page=100">>
    [] op = "getAttachment" ->
         base \o <<"/attachments/">> \o NumToString(id)
    [] op = "searchTickets" ->
         base \o <<"/search/tickets?", "query", "=">>
           \o [i \in 1..Len(query) |-> FormEncode(query[i])]

\* the headers each operation sends
HeadersOf(op, apiKey) ==
  IF op = "getAttachment"
  THEN AttachmentHeaders(apiKey)
  ELSE getAuthHeaders(apiKey)

\* a request handed to fetch
NoRequest == [op |-> "none", url |-> <<>>, headers |-> NoHeaders]
Request(op, url, headers) == [op |-> op, url |-> url, headers |-> headers]

\* ------------------------------------------------------------ upstream client
Err(name, msg) == [name |-> name, message |-> msg]
NoErr == Err("", <<>>)

Thrown(e) == [ok |-> FALSE, err |-> e, data |-> NoData, filename |-> <<>>]
Returned(d) == [ok |-> TRUE, err |-> NoErr, data |-> d, filename |-> <<>>]

\* what `await fetch(...)` throws
FetchError(o) ==
  IF o.kind = "abort"
  THEN Err("AbortError", <<"This operation was aborted">>)
  ELSE Err("TypeError", <<o.netmsg>>)

\* what `await response.json()` throws on a body that is not JSON
JsonError == Err("SyntaxError", <<"Unexpected token '<' is not valid JSON">>)

\* the catch block of getTicket and getConversations
Rethrow(e) ==
  IF e.name = "AbortError"
  THEN Err("Error", <<"Request timeout - Freshdesk API took too long to respond">>)
  ELSE IF Includes(e.message, "fetch failed")
       THEN Err("Error", <<"Network error - Unable to connect to Freshdesk API. Check your domain and network connectivity.">>)
       ELSE e

getTicket(ticketId, o) ==
  IF o.kind # "http"
  THEN Thrown(Rethrow(FetchError(o)))
  ELSE IF ~ResponseOk(o.status)
       THEN Thrown(Rethrow(
              IF o.status = 404
              THEN Err("Error", <<"Ticket #">> \o NumToString(ticketId)
                                  \o <<" not found">>)
              ELSE IF o.status = 401
                   THEN Err("Error", <<"Authentication failed - check your API key and domain">>)
                   ELSE Err("Error", <<"Failed to fetch ticket: ">>
                                       \o NumToString(o.status)
                                       \o <<" ", StatusText(o.status), " - ">>
                                       \o o.body)))
       ELSE IF o.data.shape = "badjson"
            THEN Thrown(Rethrow(JsonError))
            ELSE Returned(o.data)

getConversations(ticketId, o) ==
  IF o.kind # "http"
  THEN Thrown(Rethrow(FetchError(o)))
  ELSE IF ~ResponseOk(o.status)
       THEN Thrown(Rethrow(
              IF o.status = 401
              THEN Err("Error", <<"Authentication failed - check your API key and domain">>)
              ELSE IF o.status = 404
                   THEN Err("Error", <<"Ticket #">> \o NumToString(ticketId)
                          \o <<" not found or no conversations available">>)
                   ELSE Err("Error", <<"Failed to fetch conversations: ">>
                                       \o NumToString(o.status)
                                       \o <<" ", StatusText(o.status), " - ">>
                                       \o o.body)))
       ELSE IF o.data.shape = "badjson"
            THEN Thrown(Rethrow(JsonError))
            ELSE Returned(o.data)


\* smallest index k >= from with s[k] \in S; 0 when there is none
FirstIdx(s, from, S) ==
  LET ks == {k \in from..Len(s) : s[k] \in S}
  IN IF ks = {} THEN 0 ELSE CHOOSE k \in ks : \A m \in ks : k <= m

QuoteAtoms == {"'", "\""}

\* /filename[^;=\n]*=((['"]).*?\2|[^;\n]*)/ tried at an occurrence i of
\* "filename": the class [^;=\n]* runs up to the first ";" or "=", which must
\* be "="; group 1 is a quoted run up to the nearest matching quote, or else
\* everything up to the next ";"
FilenameMatchAt(h, i) ==
  LET e == FirstIdx(h, i + 1, {";", "="})
      g == e + 1
      c == IF g <= Len(h) /\ h[g] \in QuoteAtoms
           THEN FirstIdx(h, g + 1, {h[g]})
           ELSE 0
      semi == FirstIdx(h, g, {";"})
      stop == IF semi = 0 THEN Len(h) ELSE semi - 1
  IN IF e = 0 \/ h[e] # "="
     THEN None
     ELSE IF c # 0
          THEN Some(SubSeq(h, g, c))
          ELSE Some(SubSeq(h, g, stop))

\* String.match: the leftmost occurrence that matches
FilenameMatch(h) ==
  LET is == {i \in DOMAIN h : h[i] = "filename" /\ FilenameMatchAt(h, i).has}
  IN IF is = {}
     THEN None
     ELSE FilenameMatchAt(h, CHOOSE i \in is : \A m \in is : i <= m)

\* .replace(/['"]/g, "")
RECURSIVE StripQuotes(_)
StripQuotes(s) ==
  IF s = <<>>
  THEN <<>>
  ELSE IF Head(s) \in QuoteAtoms
       THEN StripQuotes(Tail(s))
       ELSE <<Head(s)>> \o StripQuotes(Tail(s))

AttachmentName(attachmentId) == <<"attachment_">> \o NumToString(attachmentId)

\* getAttachment, lines 142-145: the filename of a successful download
ExtractFilename(attachmentId, hdr) ==
  LET contentDisposition == IF hdr.has THEN hdr.v ELSE <<>>
      filenameMatch == FilenameMatch(contentDisposition)
  IN IF filenameMatch.has
     THEN StripQuotes(filenameMatch.v)
     ELSE AttachmentName(attachmentId)

getAttachment(attachmentId, o) ==
  LET wrap(e) ==
        IF e.name = "AbortError"
        THEN Err("Error", <<"Attachment download timeout - file took too long to download">>)
        ELSE IF Includes(e.message, "fetch failed")
             THEN Err("Error", <<"Network error - Unable to connect to Freshdesk for attachment download">>)
             ELSE Err("Error", <<"Failed to fetch attachment: ">> \o e.message)
  IN IF o.kind # "http"
     THEN Thrown(wrap(FetchError(o)))
     ELSE IF ~ResponseOk(o.status)
          THEN Thrown(wrap(
                 IF o.status = 404
                 THEN Err("Error", <<"Attachment ">> \o NumToString(attachmentId)
                                     \o <<" not found">>)
                 ELSE IF o.status = 401
                      THEN Err("Error", <<"Authentication failed - check your API key">>)
                      ELSE Err("Error", <<"Failed to fetch attachment: ">>
                                          \o NumToString(o.status)
                                          \o <<" ", StatusText(o.status), " - ">>
                                          \o o.body)))
          ELSE [ok |-> TRUE, err |-> NoErr, data |-> o.data,
                filename |-> ExtractFilename(attachmentId, o.data.hdr)]

searchTickets(o) ==
  IF o.kind # "http"
  THEN Thrown(FetchError(o))
  ELSE IF ~ResponseOk(o.status)
       THEN Thrown(Err("Error", <<"Failed to search tickets: ",
                                  StatusText(o.status)>>))
       ELSE IF o.data.shape = "badjson"
            THEN Thrown(JsonError)
            ELSE Returned(o.data)


\* ===================================================================== state
VARIABLES
  config,            \* freshdeskConfig of the deployment
  pc,                \* the route handler: "idle", "awaiting", "done"
  req,               \* the request being handled
  calls,             \* upstream operation -> its state and the upstream's answer
  callCount,         \* fetches issued to the upstream during the request
  resp,              \* the response of the handler
  currentTicketId,   \* TicketDashboard state (0 is null)
  depTicketId,       \* the ticketId the hook's effect last ran with
  searchResults,     \* TicketDashboard state: number of results held
  ticket,            \* useFreshdeskData state (0 is null, else the ticket's id)
  conversations,     \* useFreshdeskData state: number of conversations held
  loading,           \* useFreshdeskData state
  error,             \* useFreshdeskData state: None is null
  loads,             \* the loadData runs of the hook
  tOp,               \* the upstream operation whose timing is followed
  tPc,               \* its position
  tTimer,            \* its abort timer
  tElapsed,          \* seconds since the timer was armed
  upstreamTicket,           \* a ticket as the upstream sent it (None: none yet)
  transformedTicket,        \* the same ticket after the ticket route's
                            \* transformation (None: not transformed yet)
  upstreamConversation,     \* a conversation as the upstream sent it
  transformedConversation,  \* the same after the conversations route's map
  clientConfig,      \* the configuration a FreshdeskAPI is constructed with,
                     \* its domain in pieces and its API key in characters
  clientPc,          \* that client: "new", "constructed", "sent", "threw"
  baseUrl,           \* its baseUrl
  request            \* the request it handed to fetch

routeVars == <<config, pc, req, calls, callCount, resp>>
dashVars == <<currentTicketId, depTicketId, searchResults, ticket,
              conversations, loading, error, loads>>
timerVars == <<tOp, tPc, tTimer, tElapsed>>
normVars == <<upstreamTicket, transformedTicket, upstreamConversation,
              transformedConversation>>
clientVars == <<clientConfig, clientPc, baseUrl, request>>
vars == <<routeVars, dashVars, timerVars, normVars, clientVars>>

\* =============================================================== route handlers
Ops == {"getTicket", "getConversations", "getAttachment", "searchTickets"}
Routes == {"ticket", "conversations", "attachment", "search"}

IdParams == SeqsUpTo(IdChars, MaxIdLen) \ {<<>>}
Queries == {None} \cup {Some(x) : x \in SeqsUpTo(QueryAtoms, MaxQueryLen)}
SearchTypes == {"number", "url", "domain", "none"}
RequestedFilenames == {None, Some(<<>>), Some(<<"q.txt">>)}

NoReq == [route |-> "none", id |-> <<>>, q |-> None, type |-> "none",
          filename |-> None]

NoCall == [state |-> "none", outcome |-> NoOutcome]
Pending == [state |-> "pending", outcome |-> NoOutcome]
Settled(o) == [state |-> "settled", outcome |-> o]

NoResp == [status |-> 0, fields |-> {}, error |-> "", details |-> <<>>,
           ticket |-> NoData, conversations |-> NoData, results |-> NoData,
           filename |-> <<>>]

\* NextResponse.json({error, details, ...}, {status}): fields are the keys of
\* the body
Json(status, fields, err, details) ==
  [NoResp EXCEPT !.status = status, !.fields = fields, !.error = err,
                 !.details = details]

\* NextResponse.json(value) of a successful handler
JsonOk == [NoResp EXCEPT !.status = 200]

\* if (!ticketId)
InvalidId(t) == Falsy(t)

\* !domain || domain === "" || domain === "your-domain"
DomainMissingNoPlaceholder(domain) == domain = ""
DomainMissing(domain) == domain = "" \/ domain = "your-domain"

\* !apiKey || apiKey === "" || apiKey === "your-api-key"
ApiKeyMissingNoPlaceholder(apiKey) == apiKey = ""
ApiKeyMissing(apiKey) == apiKey = "" \/ apiKey = "your-api-key"

\* !process.env.FRESHDESK_DOMAIN || !process.env.FRESHDESK_API_KEY
EnvMissing(c) == c.domain = "" \/ c.apiKey = ""

DomainNotSet ==
  Json(500, {"error", "details"}, "Configuration Error",
       <<"FRESHDESK_DOMAIN environment variable is not set. Please add it in Project Settings.">>)
ApiKeyNotSet ==
  Json(500, {"error", "details"}, "Configuration Error",
       <<"FRESHDESK_API_KEY environment variable is not set. Please add it in Project Settings.">>)

Respond(r) ==
  /\ pc' = "done"
  /\ resp' = r

\* the same with every fetch issued a second time
IssueTwice(ops) ==
  /\ pc' = "awaiting"
  /\ calls' = [o \in Ops |-> IF o \in ops THEN Pending ELSE calls[o]]
  /\ callCount' = callCount + 2 * Cardinality(ops)
  /\ resp' = resp

\* the handler runs up to its first await: one fetch is in flight
Issue(ops) ==
  /\ pc' = "awaiting"
  /\ calls' = [o \in Ops |-> IF o \in ops THEN Pending ELSE calls[o]]
  /\ callCount' = callCount + Cardinality(ops)
  /\ resp' = resp

\* ticket and conversations routes, lines 7-37: validation, configuration, call
TicketLikeStart(route, op, id) ==
  /\ pc = "idle"
  /\ req' = [NoReq EXCEPT !.route = route, !.id = id]
  /\ IF InvalidId(ParseInt(id))
     THEN Respond(Json(400, {"error"}, "Invalid ticket ID", <<>>))
          /\ UNCHANGED <<calls, callCount>>
     ELSE IF DomainMissing(config.domain)
          THEN Respond(DomainNotSet) /\ UNCHANGED <<calls, callCount>>
          ELSE IF ApiKeyMissing(config.apiKey)
               THEN Respond(ApiKeyNotSet) /\ UNCHANGED <<calls, callCount>>
               ELSE Issue({op})
  /\ UNCHANGED <<config, dashVars, timerVars, normVars, clientVars>>

TicketRequest(id) == TicketLikeStart("ticket", "getTicket", id)

ConversationsRequest(id) ==
  TicketLikeStart("conversations", "getConversations", id)

\* a TypeError thrown by a property read on null, or by a call of a missing
\* method
TypeErr(msg) == Err("TypeError", <<msg>>)

\* ticket route, lines 37-102
TicketRouteFetchError(ticketId, fetchError) ==
  IF Includes(fetchError.message, "404")
  THEN Json(404, {"error", "details", "ticketId"}, "Ticket Not Found",
            <<"Ticket #">> \o NumToString(ticketId)
              \o <<" does not exist or you don't have permission to access it.">>)
  ELSE Json(500, {"error", "details", "ticketId"}, "Failed to Fetch Ticket",
            fetchError.message)

TicketRouteResult(ticketId, r) ==
  IF ~r.ok
  THEN TicketRouteFetchError(ticketId, r.err)
  ELSE IF r.data.shape = "null"
       THEN TicketRouteFetchError(ticketId,
              TypeErr("Cannot read properties of null (reading 'id')"))
       ELSE [JsonOk EXCEPT !.ticket =
               [Data("transformedTicket", 0)
                  EXCEPT !.norm = transformTicket(r.data.raw)]]

TicketSettle(o) ==
  /\ pc = "awaiting"
  /\ req.route = "ticket"
  /\ calls["getTicket"].state = "pending"
  /\ calls' = [calls EXCEPT !["getTicket"] = Settled(o)]
  /\ Respond(TicketRouteResult(ParseInt(req.id).val,
                               getTicket(ParseInt(req.id).val, o)))
  /\ UNCHANGED <<config, req, callCount, dashVars, timerVars, normVars, clientVars>>

\* conversations route, lines 37-80
ConversationsRouteFetchError(ticketId, fetchError) ==
  IF Includes(fetchError.message, "404")
  THEN Json(404, {"error", "details", "ticketId"}, "Conversations Not Found",
            <<"No conversations found for ticket #">> \o NumToString(ticketId)
              \o <<" or you don't have permission to access them.">>)
  ELSE Json(500, {"error", "details", "ticketId"},
            "Failed to Fetch Conversations", fetchError.message)

\* the same with the transformation outside the try blocks: the TypeError of
\* a body that is not an array leaves the handler, and the framework answers
\* with its own 500 page
ConversationsRouteResultMapUncaught(ticketId, r) ==
  IF ~r.ok
  THEN ConversationsRouteFetchError(ticketId, r.err)
  ELSE IF r.data.shape # "array"
       THEN [NoResp EXCEPT !.status = 500]
       ELSE [JsonOk EXCEPT !.conversations =
               [Data("transformedArray", r.data.len)
                  EXCEPT !.normItems =
                    [i \in 1..r.data.len |->
                       transformConversation(r.data.items[i])]]]

ConversationsRouteResult(ticketId, r) ==
  IF ~r.ok
  THEN ConversationsRouteFetchError(ticketId, r.err)
  ELSE IF r.data.shape # "array"
       THEN ConversationsRouteFetchError(ticketId,
              TypeErr("conversationsData.map is not a function"))
       ELSE [JsonOk EXCEPT !.conversations =
               [Data("transformedArray", r.data.len)
                  EXCEPT !.normItems =
                    [i \in 1..r.data.len |->
                       transformConversation(r.data.items[i])]]]

ConversationsSettle(o) ==
  /\ pc = "awaiting"
  /\ req.route = "conversations"
  /\ calls["getConversations"].state = "pending"
  /\ calls' = [calls EXCEPT !["getConversations"] = Settled(o)]
  /\ Respond(ConversationsRouteResult(ParseInt(req.id).val,
                                      getConversations(ParseInt(req.id).val, o)))
  /\ UNCHANGED <<config, req, callCount, dashVars, timerVars, normVars, clientVars>>


\* attachment route, lines 15-38
AttachmentRequest(id, requestedFilename) ==
  /\ pc = "idle"
  /\ req' = [NoReq EXCEPT !.route = "attachment", !.id = id,
                          !.filename = requestedFilename]
  /\ IF InvalidId(ParseInt(id))
     THEN Respond(Json(400, {"error"}, "Invalid attachment ID", <<>>))
          /\ UNCHANGED <<calls, callCount>>
     ELSE IF EnvMissing(config)
          THEN Respond(Json(500, {"error", "details"},
                            "Freshdesk configuration missing",
                            <<"FRESHDESK_DOMAIN or FRESHDESK_API_KEY not configured">>))
               /\ UNCHANGED <<calls, callCount>>
          ELSE Issue({"getAttachment"})
  /\ UNCHANGED <<config, dashVars, timerVars, normVars, clientVars>>

\* filename || requestedFilename || `attachment_${attachmentId}`
FinalFilename(filename, requestedFilename, attachmentId) ==
  IF filename # <<>>
  THEN filename
  ELSE IF requestedFilename.has /\ requestedFilename.v # <<>>
       THEN requestedFilename.v
       ELSE AttachmentName(attachmentId)

\* the same with the ticket route's test for a missing resource
AttachmentRouteResultWith404(attachmentId, requestedFilename, r) ==
  IF ~r.ok
  THEN IF Includes(r.err.message, "404")
       THEN Json(404, {"error", "details", "attachmentId"},
                 "Attachment Not Found", r.err.message)
       ELSE Json(500, {"error", "details", "attachmentId"},
                 "Failed to download attachment", r.err.message)
  ELSE [JsonOk EXCEPT !.filename =
          FinalFilename(r.filename, requestedFilename, attachmentId)]

\* attachment route, lines 38-71
AttachmentRouteResult(attachmentId, requestedFilename, r) ==
  IF ~r.ok
  THEN Json(500, {"error", "details", "attachmentId"},
            "Failed to download attachment", r.err.message)
  ELSE [JsonOk EXCEPT !.filename =
          FinalFilename(r.filename, requestedFilename, attachmentId)]

AttachmentSettle(o) ==
  /\ pc = "awaiting"
  /\ req.route = "attachment"
  /\ calls["getAttachment"].state = "pending"
  /\ calls' = [calls EXCEPT !["getAttachment"] = Settled(o)]
  /\ Respond(AttachmentRouteResult(ParseInt(req.id).val, req.filename,
                                   getAttachment(ParseInt(req.id).val, o)))
  /\ UNCHANGED <<config, req, callCount, dashVars, timerVars, normVars, clientVars>>

\* ------------------------------------------------------------- search route
IsDigits(s) == s # <<>> /\ \A i \in DOMAIN s : s[i] \in DigitChars

\* query.match(/\/tickets\/(\d+)/): group 1 of the leftmost match
UrlMatch(query) ==
  LET is == {i \in 1..(Len(query) - 1) :
               query[i] = "/tickets/" /\ query[i + 1] \in DigitChars}
  IN IF is = {}
     THEN None
     ELSE Some(DigitPrefix(SubSeq(query,
                                  (CHOOSE i \in is : \A m \in is : i <= m) + 1,
                                  Len(query))))

\* the same with both forms tried whatever the type
ExtractTicketIdEitherForm(type, query) ==
  IF UrlMatch(query).has
  THEN ParseInt(UrlMatch(query).v)
  ELSE IF IsDigits(query) THEN ParseInt(query) ELSE NaN

\* search route, lines 44-58; NaN stands for a ticketId left null
ExtractTicketId(type, query) ==
  IF type = "url"
  THEN IF UrlMatch(query).has THEN ParseInt(UrlMatch(query).v) ELSE NaN
  ELSE IF IsDigits(query) THEN ParseInt(query) ELSE NaN

\* search route, lines 82-102: the outer catch
SearchCatch(e) ==
  IF Includes(e.message, "not found")
  THEN Json(404, {"error", "details"}, "Ticket not found", e.message)
  ELSE Json(500, {"error", "details"}, "Failed to search ticket", e.message)

\* search route, lines 7-74
SearchRequest(q, type) ==
  /\ pc = "idle"
  /\ req' = [NoReq EXCEPT !.route = "search", !.q = q, !.type = type]
  /\ IF ~q.has \/ q.v = <<>>
     THEN Respond(Json(400, {"error"}, "Search query is required", <<>>))
          /\ UNCHANGED <<calls, callCount>>
     ELSE IF type = "domain"
          THEN Issue({"searchTickets"})
          ELSE IF InvalidId(ExtractTicketId(type, q.v))
               THEN Respond(Json(400, {"error", "details"},
                                 "Could not extract ticket ID from input",
                                 <<"Please provide a valid ticket number or Freshdesk URL">>))
                    /\ UNCHANGED <<calls, callCount>>
               ELSE Issue({"getTicket", "getConversations"})
  /\ UNCHANGED <<config, dashVars, timerVars, normVars, clientVars>>

\* search route, lines 23-40
DomainSearchResult(r) ==
  IF ~r.ok
  THEN Json(500, {"error", "details"}, "Failed to search tickets by domain",
            r.err.message)
  ELSE IF r.data.shape = "null"
  THEN Json(500, {"error", "details"}, "Failed to search tickets by domain",
            TypeErr("Cannot read properties of null (reading 'results')").message)
  ELSE [JsonOk EXCEPT !.results =
          Data("results", IF r.data.shape = "results" THEN r.data.len ELSE 0)]

SearchDomainSettle(o) ==
  /\ pc = "awaiting"
  /\ req.route = "search"
  /\ calls["searchTickets"].state = "pending"
  /\ calls' = [calls EXCEPT !["searchTickets"] = Settled(o)]
  /\ Respond(DomainSearchResult(searchTickets(o)))
  /\ UNCHANGED <<config, req, callCount, dashVars, timerVars, normVars, clientVars>>

SearchTicketId == ExtractTicketId(req.type, req.q.v).val

\* search route, lines 76-81: both fetches fulfilled
SearchBothResult(ticketData, conversationsData) ==
  IF ticketData.shape = "null"
  THEN SearchCatch(TypeErr("Cannot read properties of null (reading 'subject')"))
  ELSE [JsonOk EXCEPT !.ticket = ticketData,
                      !.conversations = conversationsData]

\* Promise.all([getTicket, getConversations]): the first rejection rejects the
\* whole, and the handler answers from its catch; the other fetch's answer is
\* then discarded
SearchSettle(op, other, r, o) ==
  /\ pc = "awaiting"
  /\ req.route = "search"
  /\ calls[op].state = "pending"
  /\ calls' = [calls EXCEPT ![op] = Settled(o)]
  /\ IF ~r.ok
     THEN Respond(SearchCatch(r.err))
     ELSE IF calls[other].state = "settled"
          THEN Respond(IF op = "getTicket"
                       THEN SearchBothResult(r.data, calls[other].outcome.data)
                       ELSE SearchBothResult(calls[other].outcome.data, r.data))
          ELSE UNCHANGED <<pc, resp>>
  /\ UNCHANGED <<config, req, callCount, dashVars, timerVars, normVars, clientVars>>

SearchTicketSettle(o) ==
  SearchSettle("getTicket", "getConversations", getTicket(SearchTicketId, o), o)

SearchConversationsSettle(o) ==
  SearchSettle("getConversations", "getTicket",
               getConversations(SearchTicketId, o), o)

\* the fetch that was still in flight when Promise.all rejected: it completes
\* after the handler has answered and its answer is discarded
Discarded(o) == [state |-> "discarded", outcome |-> o]

SearchLateSettle(op, o) ==
  /\ pc = "done"
  /\ req.route = "search"
  /\ op \in {"getTicket", "getConversations"}
  /\ calls[op].state = "pending"
  /\ calls' = [calls EXCEPT ![op] = Discarded(o)]
  /\ UNCHANGED <<config, pc, req, callCount, resp, dashVars, timerVars,
                 normVars, clientVars>>


\* ------------------------------------------------------------ idle components
RouteIdle ==
  /\ pc = "idle"
  /\ req = NoReq
  /\ calls = [o \in Ops |-> NoCall]
  /\ callCount = 0
  /\ resp = NoResp

DashIdle ==
  /\ currentTicketId = 0
  /\ depTicketId = 0
  /\ searchResults = 0
  /\ ticket = 0
  /\ conversations = 0
  /\ loading = FALSE
  /\ error = None
  /\ loads = <<>>

TimerIdle ==
  /\ tOp = "none"
  /\ tPc = "init"
  /\ tTimer = "unset"
  /\ tElapsed = 0

NoPayload(empty) == [has |-> FALSE, v |-> empty]
Payload(x) == [has |-> TRUE, v |-> x]

NormIdle ==
  /\ upstreamTicket = NoPayload(EmptyRawTicket)
  /\ transformedTicket = NoPayload(EmptyTicket)
  /\ upstreamConversation = NoPayload(EmptyRawConversation)
  /\ transformedConversation = NoPayload(EmptyConversation)

ClientIdle ==
  /\ clientConfig = [domain |-> <<>>, apiKey |-> <<>>]
  /\ clientPc = "new"
  /\ baseUrl = <<>>
  /\ request = NoRequest

\* ============================================ the routes: one request handled
Init ==
  /\ config \in Configs
  /\ RouteIdle
  /\ DashIdle
  /\ TimerIdle
  /\ NormIdle
  /\ ClientIdle

Next ==
  \/ \E id \in IdParams : TicketRequest(id)
  \/ \E id \in IdParams : ConversationsRequest(id)
  \/ \E id \in IdParams, f \in RequestedFilenames : AttachmentRequest(id, f)
  \/ \E q \in Queries, type \in SearchTypes : SearchRequest(q, type)
  \/ \E o \in Outcomes("getTicket") : TicketSettle(o)
  \/ \E o \in Outcomes("getConversations") : ConversationsSettle(o)
  \/ \E o \in Outcomes("getAttachment") : AttachmentSettle(o)
  \/ \E o \in Outcomes("searchTickets") : SearchDomainSettle(o)
  \/ \E o \in Outcomes("getTicket") : SearchTicketSettle(o)
  \/ \E o \in Outcomes("getConversations") : SearchConversationsSettle(o)
  \/ \E o \in Outcomes("getTicket") : SearchLateSettle("getTicket", o)
  \/ \E o \in Outcomes("getConversations") :
       SearchLateSettle("getConversations", o)

Spec == Init /\ [][Next]_vars


\* =================================================================== dashboard
MaxLoads == 2      \* loadData runs started in one behaviour
DashTicketIds == {1, 2}

\* what the dashboard's own endpoints answer to the browser's fetch
EndpointAnswer(kind, status, details, n) ==
  [kind |-> kind, status |-> status, details |-> details, n |-> n]
NoAnswer == EndpointAnswer("none", 0, None, 0)
EndpointFailures ==
  {EndpointAnswer("throw", 0, None, 0)}
    \cup {EndpointAnswer("http", st, d, 0) :
            st \in {400, 404, 500}, d \in {None, Some(<<"details">>)}}
TicketAnswers ==
  EndpointFailures
    \cup {EndpointAnswer("http", 200, None, 0), EndpointAnswer("badjson", 200, None, 0)}
ConversationAnswers ==
  EndpointFailures
    \cup {EndpointAnswer("http", 200, None, n) : n \in {0, 2}}
    \cup {EndpointAnswer("badjson", 200, None, 0)}

Threw(msg) == [threw |-> TRUE, message |-> msg, n |-> 0]
Resolved(n) == [threw |-> FALSE, message |-> <<>>, n |-> n]

\* the same with 404 read as "nothing there", as fetchConversations reads it
fetchTicketDetails404Resolves(ticketId, a) ==
  IF a.kind = "throw"
  THEN Threw(<<"Failed to fetch">>)
  ELSE IF ~ResponseOk(a.status)
       THEN IF a.status = 404
            THEN Resolved(0)
            ELSE IF a.details.has
                 THEN Threw(a.details.v)
                 ELSE Threw(<<"Failed to fetch ticket: ", StatusText(a.status)>>)
       ELSE IF a.kind = "badjson"
            THEN Threw(<<"Unexpected token">>)
            ELSE Resolved(0)

\* fetchTicketDetails, lines 180-198
fetchTicketDetails(ticketId, a) ==
  IF a.kind = "throw"
  THEN Threw(<<"Failed to fetch">>)
  ELSE IF ~ResponseOk(a.status)
       THEN IF a.status = 404
            THEN Threw(<<"Ticket #">> \o NumToString(ticketId) \o <<" not found">>)
            ELSE IF a.details.has
                 THEN Threw(a.details.v)
                 ELSE Threw(<<"Failed to fetch ticket: ", StatusText(a.status)>>)
       ELSE IF a.kind = "badjson"
            THEN Threw(<<"Unexpected token">>)
            ELSE Resolved(0)

\* fetchConversations, lines 200-217
fetchConversations(ticketId, a) ==
  IF a.kind = "throw"
  THEN Threw(<<"Failed to fetch">>)
  ELSE IF ~ResponseOk(a.status)
       THEN IF a.status = 404
            THEN Resolved(0)
            ELSE IF a.details.has
                 THEN Threw(a.details.v)
                 ELSE Threw(<<"Failed to fetch conversations: ", StatusText(a.status)>>)
       ELSE IF a.kind = "badjson"
            THEN Threw(<<"Unexpected token">>)
            ELSE Resolved(a.n)

HookState == [ticket |-> ticket, conversations |-> conversations, error |-> error]

\* the same without setError
LoadFailedWithoutError(st, msg) ==
  [st EXCEPT !.ticket = 0, !.conversations = 0]

\* loadData, lines 249-252: the outer catch
LoadFailed(st, msg) ==
  [st EXCEPT !.error = Some(msg), !.ticket = 0, !.conversations = 0]

\* loadData, lines 242-248: the conversations of a loaded ticket
AfterConversationsNoInnerCatch(st, r) ==
  IF r.threw
  THEN LoadFailed(st, r.message)
  ELSE [st EXCEPT !.conversations = r.n]
AfterConversations(st, r) ==
  IF r.threw
  THEN [st EXCEPT !.conversations = 0]
  ELSE [st EXCEPT !.conversations = r.n]

\* the same without the loading screen
ViewWithoutLoadingScreen ==
  IF currentTicketId = 0 /\ searchResults = 0
  THEN "search"
  ELSE IF error.has \/ ticket = 0 THEN "error" ELSE "ticket"

\* what TicketDashboard renders, lines 378-427
View ==
  IF currentTicketId = 0 /\ searchResults = 0
  THEN "search"
  ELSE IF loading
       THEN "loading"
       ELSE IF error.has \/ ticket = 0 THEN "error" ELSE "ticket"

Load(id, at, tAns, cAns) == [id |-> id, pc |-> at, tAns |-> tAns, cAns |-> cAns]

\* TicketSearch calls onTicketFound(ticketId): setCurrentTicketId
TicketFound(id) ==
  /\ View = "search"
  /\ Len(loads) < MaxLoads
  /\ currentTicketId' = id
  /\ UNCHANGED <<depTicketId, searchResults, ticket, conversations, loading,
                 error, loads, routeVars, timerVars, normVars, clientVars>>

\* TicketSearch calls onTicketsFound(results) after a domain search
TicketsFound(n) ==
  /\ View = "search"
  /\ searchResults' = n
  /\ UNCHANGED <<currentTicketId, depTicketId, ticket, conversations, loading,
                 error, loads, routeVars, timerVars, normVars, clientVars>>

\* the two back buttons, lines 408-411 and 436-439
Back ==
  /\ View \in {"error", "ticket"}
  /\ currentTicketId' = 0
  /\ searchResults' = 0
  /\ UNCHANGED <<depTicketId, ticket, conversations, loading, error, loads,
                 routeVars, timerVars, normVars, clientVars>>

\* useEffect(..., [ticketId]), lines 226-259: runs when ticketId has changed;
\* with an id it runs loadData up to its first await
Effect ==
  /\ depTicketId # currentTicketId
  /\ depTicketId' = currentTicketId
  /\ IF currentTicketId = 0
     THEN /\ ticket' = 0
          /\ conversations' = 0
          /\ loading' = FALSE
          /\ error' = None
          /\ loads' = loads
     ELSE /\ loading' = TRUE
          /\ error' = None
          /\ loads' = Append(loads, Load(currentTicketId, "ticket", NoAnswer, NoAnswer))
          /\ UNCHANGED <<ticket, conversations>>
  /\ UNCHANGED <<currentTicketId, searchResults, routeVars, timerVars, normVars, clientVars>>

\* loadData resumes with the answer to the ticket request, lines 239-255
TicketAnswer(l, a) ==
  /\ l \in DOMAIN loads
  /\ loads[l].pc = "ticket"
  /\ LET r == fetchTicketDetails(loads[l].id, a)
         st == LoadFailed(HookState, r.message)
     IN IF r.threw
        THEN /\ ticket' = st.ticket
             /\ conversations' = st.conversations
             /\ error' = st.error
             /\ loading' = FALSE
             /\ loads' = [loads EXCEPT ![l].pc = "done", ![l].tAns = a]
        ELSE /\ ticket' = loads[l].id
             /\ loads' = [loads EXCEPT ![l].pc = "conv", ![l].tAns = a]
             /\ UNCHANGED <<conversations, error, loading>>
  /\ UNCHANGED <<currentTicketId, depTicketId, searchResults, routeVars, timerVars, normVars, clientVars>>

\* loadData resumes with the answer to the conversations request, lines 243-255
ConversationsAnswer(l, a) ==
  /\ l \in DOMAIN loads
  /\ loads[l].pc = "conv"
  /\ LET st == AfterConversations(HookState, fetchConversations(loads[l].id, a))
     IN /\ ticket' = st.ticket
        /\ conversations' = st.conversations
        /\ error' = st.error
  /\ loading' = FALSE
  /\ loads' = [loads EXCEPT ![l].pc = "done", ![l].cAns = a]
  /\ UNCHANGED <<currentTicketId, depTicketId, searchResults, routeVars, timerVars, normVars, clientVars>>

InitDash ==
  /\ config = [domain |-> "acme", apiKey |-> "k"]
  /\ RouteIdle
  /\ DashIdle
  /\ TimerIdle
  /\ NormIdle
  /\ ClientIdle

NextDash ==
  \/ \E id \in DashTicketIds : TicketFound(id)
  \/ \E n \in {0, 2} : TicketsFound(n)
  \/ Back
  \/ Effect
  \/ \E l \in 1..MaxLoads, a \in TicketAnswers : TicketAnswer(l, a)
  \/ \E l \in 1..MaxLoads, a \in ConversationAnswers : ConversationsAnswer(l, a)

SpecDash == InitDash /\ [][NextDash]_vars

\* ======================================= the timing of one upstream operation
MaxTime == 17      \* seconds followed after the timer is armed

\* setTimeout(() => controller.abort(), 10000) and 15000 for attachments
TimeoutSeconds(op) == IF op = "getAttachment" THEN 15 ELSE 10

TimedPending == tPc \in {"fetching", "reading"}

\* const controller = new AbortController(); setTimeout(...); fetch(...)
Arm(op) ==
  /\ tPc = "init"
  /\ tOp' = op
  /\ tPc' = "fetching"
  /\ tTimer' = "armed"
  /\ tElapsed' = 0
  /\ UNCHANGED <<routeVars, dashVars, normVars, clientVars>>

\* a second passes while the operation is pending; a timer that is due fires
\* before more time passes
Tick ==
  /\ TimedPending
  /\ tElapsed < MaxTime
  /\ ~(tTimer = "armed" /\ tPc = "fetching" /\ tElapsed >= TimeoutSeconds(tOp))
  /\ tElapsed' = tElapsed + 1
  /\ UNCHANGED <<tOp, tPc, tTimer, routeVars, dashVars, normVars, clientVars>>

\* the timer's callback: controller.abort() rejects the pending fetch with an
\* AbortError, which the operation reports
TimerFires ==
  /\ tTimer = "armed"
  /\ tPc = "fetching"
  /\ tElapsed >= TimeoutSeconds(tOp)
  /\ tTimer' = "fired"
  /\ tPc' = "thrown"
  /\ UNCHANGED <<tOp, tElapsed, routeVars, dashVars, normVars, clientVars>>

\* fetch resolves with the response's status and headers: clearTimeout(timeoutId),
\* then the body is read (text(), json() or blob()); searchTickets throws on a
\* non-success status without reading the body
HeadersArrive(ok) ==
  /\ tPc = "fetching"
  /\ tTimer = "armed"
  /\ tTimer' = "cleared"
  /\ tPc' = IF tOp = "searchTickets" /\ ~ok THEN "thrown" ELSE "reading"
  /\ UNCHANGED <<tOp, tElapsed, routeVars, dashVars, normVars, clientVars>>

\* fetch rejects (transport failure): the catch block reports it; the timer is
\* not cleared on this path
FetchFails ==
  /\ tPc = "fetching"
  /\ tTimer = "armed"
  /\ tPc' = "thrown"
  /\ UNCHANGED <<tOp, tTimer, tElapsed, routeVars, dashVars, normVars, clientVars>>

\* the body has been read: the operation returns its data or throws the error
\* built from the status and the body
BodyRead(ok) ==
  /\ tPc = "reading"
  /\ tPc' = IF ok THEN "returned" ELSE "thrown"
  /\ UNCHANGED <<tOp, tTimer, tElapsed, routeVars, dashVars, normVars, clientVars>>

InitTimer ==
  /\ config = [domain |-> "acme", apiKey |-> "k"]
  /\ RouteIdle
  /\ DashIdle
  /\ TimerIdle
  /\ NormIdle
  /\ ClientIdle

NextTimer ==
  \/ \E op \in Ops : Arm(op)
  \/ Tick
  \/ TimerFires
  \/ \E ok \in BOOLEAN : HeadersArrive(ok)
  \/ FetchFails
  \/ \E ok \in BOOLEAN : BodyRead(ok)

SpecTimer == InitTimer /\ [][NextTimer]_vars

\* ========================================= the transformations, on any payload
\* the ticket route's transformation applied to a ticket payload
TransformTicket ==
  /\ upstreamTicket.has
  /\ ~transformedTicket.has
  /\ transformedTicket' = Payload(transformTicket(upstreamTicket.v))
  /\ UNCHANGED <<upstreamTicket, upstreamConversation,
                 transformedConversation, routeVars, dashVars, timerVars, clientVars>>

\* the conversations route's map callback applied to a conversation
TransformConversation ==
  /\ upstreamConversation.has
  /\ ~transformedConversation.has
  /\ transformedConversation' =
       Payload(transformConversation(upstreamConversation.v))
  /\ UNCHANGED <<upstreamTicket, transformedTicket, upstreamConversation,
                 routeVars, dashVars, timerVars, clientVars>>

InitNorm ==
  /\ config = [domain |-> "acme", apiKey |-> "k"]
  /\ RouteIdle
  /\ DashIdle
  /\ TimerIdle
  /\ ClientIdle
  /\ transformedTicket = NoPayload(EmptyTicket)
  /\ transformedConversation = NoPayload(EmptyConversation)
  /\ \/ /\ upstreamTicket \in {Payload(t) : t \in RawTickets}
        /\ upstreamConversation = NoPayload(EmptyRawConversation)
     \/ /\ upstreamTicket = NoPayload(EmptyRawTicket)
        /\ upstreamConversation \in {Payload(c) : c \in RawConversations}

NextNorm ==
  \/ TransformTicket
  \/ TransformConversation

SpecNorm == InitNorm /\ [][NextNorm]_vars

\* ============================================ the client, on any configuration
DomainAtoms == {"acme", ".freshdesk.com", ".", "eu"}
DomainTexts == SeqsUpTo(DomainAtoms, MaxDomainLen)
KeyTexts == SeqsUpTo(KeyChars, MaxKeyLen)
ClientIds == {4}
ClientQueries == {<<"requester_email", ":", "*", "@", "acme.com">>}

\* new FreshdeskAPI(config), lines 13-17
Construct ==
  /\ clientPc = "new"
  /\ clientPc' = "constructed"
  /\ baseUrl' = BaseUrl(clientConfig.domain)
  /\ UNCHANGED <<clientConfig, request, routeVars, dashVars, timerVars,
                 normVars>>

\* an operation of the client up to its fetch: the url and the headers are
\* built, and fetch is called unless building the headers threw
Fetch(op, id, query) ==
  /\ clientPc = "constructed"
  /\ IF HeadersOf(op, clientConfig.apiKey).has
     THEN /\ clientPc' = "sent"
          /\ request' = Request(op, UrlOf(op, baseUrl, id, query),
                                HeadersOf(op, clientConfig.apiKey).v)
     ELSE /\ clientPc' = "threw"
          /\ request' = request
  /\ UNCHANGED <<clientConfig, baseUrl, routeVars, dashVars, timerVars,
                 normVars>>

InitClient ==
  /\ config = [domain |-> "acme", apiKey |-> "k"]
  /\ RouteIdle
  /\ DashIdle
  /\ TimerIdle
  /\ NormIdle
  /\ clientConfig \in [domain : DomainTexts, apiKey : KeyTexts]
  /\ clientPc = "new"
  /\ baseUrl = <<>>
  /\ request = NoRequest

NextClient ==
  \/ Construct
  \/ \E op \in Ops, id \in ClientIds, query \in ClientQueries :
       Fetch(op, id, query)

SpecClient == InitClient /\ [][NextClient]_vars

\* ============================== the deployment: one request, or the dashboard
\* a behaviour is one request to a route under any configuration, or the
\* dashboard in a browser against a configured deployment
InitAll == Init

NextAll ==
  \/ DashIdle /\ Next
  \/ RouteIdle /\ config = [domain |-> "acme", apiKey |-> "k"] /\ NextDash

SpecAll == InitAll /\ [][NextAll]_vars

\* ================================================================ properties
\* what the properties say about a request, in the words of the specification
DomainUnusable == config.domain \in {"", "your-domain"}
ApiKeyUnusable == config.apiKey \in {"", "your-api-key"}
IdZeroOrNonNumeric == ParseInt(req.id).nan \/ ParseInt(req.id).val = 0
OnTicketRoutes == req.route \in {"ticket", "conversations"}
RouteOp == IF req.route = "ticket" THEN "getTicket" ELSE "getConversations"
Answered(op) == calls[op].state = "settled"
Answer(op) == calls[op].outcome
IsConfigurationError(r) ==
  /\ r.status = 500
  /\ r.error \in {"Configuration Error", "Freshdesk configuration missing"}

\* C1: on the ticket and the conversations route, whenever the upstream
\* answers the request with HTTP 404 the response status is 404, for every
\* ticket id.
C1_Upstream404Gives404 ==
  (/\ pc = "done"
   /\ OnTicketRoutes
   /\ Answered(RouteOp)
   /\ Answer(RouteOp).kind = "http"
   /\ Answer(RouteOp).status = 404)
    => resp.status = 404

\* C2 as stated: on the ticket and the conversations route, with the domain
\* equal to its placeholder, the request fails with the configuration error
\* (500, "Configuration Error") for every id parameter, valid or not.
C2_PlaceholderDomainAlwaysConfigError ==
  (OnTicketRoutes /\ config.domain = "your-domain")
    => /\ pc = "done"
       /\ resp.status = 500
       /\ resp.error = "Configuration Error"

\* C2 amended: on the ticket and the conversations route, with the domain
\* equal to its placeholder, no fetch is issued; the response is 500
\* "Configuration Error" when the id parses to a non-zero integer and 400
\* "Invalid ticket ID" when it does not.
C2_PlaceholderDomainConfigErrorAfterIdCheck ==
  (OnTicketRoutes /\ config.domain = "your-domain")
    => /\ pc = "done"
       /\ callCount = 0
       /\ IF IdZeroOrNonNumeric
          THEN resp.status = 400 /\ resp.error = "Invalid ticket ID"
          ELSE resp.status = 500 /\ resp.error = "Configuration Error"

C2_Witness ==
  /\ pc = "done"
  /\ req.route = "conversations"
  /\ config = [domain |-> "your-domain", apiKey |-> "k"]
  /\ ~IdZeroOrNonNumeric
  /\ resp = DomainNotSet

\* C3: on every endpoint, when the domain or the API key is empty or its
\* placeholder, no upstream call is made during the request and the request
\* ends in a configuration error (a request answered 400 for its input aside).
C3_NoUpstreamCallWhenMisconfigured ==
  (req.route \in Routes /\ (DomainUnusable \/ ApiKeyUnusable))
    => /\ callCount = 0
       /\ pc # "awaiting"
       /\ (pc = "done" /\ resp.status # 400) => IsConfigurationError(resp)

\* C4: on the ticket and the conversations route with a valid id, if the domain
\* or the API key is unset or a placeholder, the response is 500
\* "Configuration Error" and no upstream call has been made.
C4_ConfigErrorBeforeUpstream ==
  (OnTicketRoutes /\ ~IdZeroOrNonNumeric /\ (DomainUnusable \/ ApiKeyUnusable))
    => /\ pc = "done"
       /\ callCount = 0
       /\ \A op \in Ops : calls[op].state = "none"
       /\ resp.status = 500
       /\ resp.error = "Configuration Error"

C4_Witness ==
  /\ pc = "done"
  /\ req.route = "ticket"
  /\ req.id = <<"4", "0", "4">>
  /\ config = [domain |-> "acme", apiKey |-> "your-api-key"]
  /\ resp = ApiKeyNotSet
  /\ callCount = 0

\* C5: on the ticket, conversations and attachment routes, when the id
\* parameter is zero or non-numeric the response is 400 and no upstream call
\* is made during the request.
C5_InvalidIdRejected ==
  (req.route \in {"ticket", "conversations", "attachment"} /\ IdZeroOrNonNumeric)
    => /\ pc = "done"
       /\ resp.status = 400
       /\ callCount = 0
       /\ \A op \in Ops : calls[op].state = "none"

C5_Witness ==
  /\ pc = "done"
  /\ req.route = "attachment"
  /\ req.id = <<"0", "0">>
  /\ config = [domain |-> "acme", apiKey |-> "k"]
  /\ resp.status = 400
  /\ callCount = 0

\* C7: on the search route with type number or url and an extractable id, when
\* the ticket fetch succeeds and the upstream answers 404 to the conversations
\* fetch, the response is 200 with the ticket and an empty conversations list.
C7_SearchConversations404GivesEmptyList ==
  (/\ pc = "done"
   /\ req.route = "search"
   /\ req.type # "domain"
   /\ Answered("getTicket")
   /\ Answer("getTicket").status = 200
   /\ Answer("getTicket").data.shape = "ticket"
   /\ Answered("getConversations")
   /\ Answer("getConversations").status = 404)
    => /\ resp.status = 200
       /\ resp.ticket = Answer("getTicket").data
       /\ resp.conversations.len = 0

\* C8: on the ticket and the conversations route, whenever the upstream call
\* fails for a reason other than an upstream HTTP 404 (401, another non-success
\* status with any body text, timeout, network failure), the response status is
\* 500.
C8_OtherFailureGives500 ==
  (/\ pc = "done"
   /\ OnTicketRoutes
   /\ Answered(RouteOp)
   /\ \/ Answer(RouteOp).kind \in {"abort", "netfail"}
      \/ /\ Answer(RouteOp).kind = "http"
         /\ ~ResponseOk(Answer(RouteOp).status)
         /\ Answer(RouteOp).status # 404)
    => resp.status = 500

\* C9: on the attachment route the filename of the response's
\* Content-Disposition is the filename carried by the upstream
\* content-disposition header when there is one; otherwise the requested
\* filename F when F is given; otherwise attachment_{id}.
HeaderFilename(hdr) ==
  IF hdr.has /\ FilenameMatch(hdr.v).has
  THEN StripQuotes(FilenameMatch(hdr.v).v)
  ELSE <<>>

C9_FilenameResolution ==
  (/\ pc = "done"
   /\ req.route = "attachment"
   /\ resp.status = 200)
    => resp.filename =
         IF HeaderFilename(Answer("getAttachment").data.hdr) # <<>>
         THEN HeaderFilename(Answer("getAttachment").data.hdr)
         ELSE IF req.filename.has /\ req.filename.v # <<>>
              THEN req.filename.v
              ELSE <<"attachment_">> \o NumToString(ParseInt(req.id).val)


\* C6: in a dashboard load, if the ticket request succeeded and the
\* conversations request fails in any way (404, 500, a thrown fetch), the step
\* that ends the load empties the conversation list, stops loading and leaves
\* the ticket and the error as they were; when it is the only load of the
\* view, the load ends with its ticket set and no error.
ConversationsFailed(a) ==
  a.kind \in {"throw", "badjson"} \/ (a.kind = "http" /\ ~ResponseOk(a.status))

OnlyLoad(l) ==
  /\ Len(loads) = 1
  /\ currentTicketId = loads[l].id
  /\ depTicketId = currentTicketId

C6_ConversationFailureKeepsTicket ==
  [][\A l \in DOMAIN loads :
       (/\ loads[l].pc = "conv"
        /\ loads'[l].pc = "done"
        /\ ConversationsFailed(loads'[l].cAns))
         => /\ conversations' = 0
            /\ loading' = FALSE
            /\ error' = error
            /\ ticket' = ticket
            /\ OnlyLoad(l) => (ticket' = loads[l].id /\ error' = None)]_vars

C6_Witness ==
  /\ Len(loads) = 1
  /\ loads[1].pc = "done"
  /\ loads[1].tAns.status = 200
  /\ loads[1].cAns.status = 500
  /\ currentTicketId = loads[1].id
  /\ ticket = loads[1].id
  /\ conversations = 0
  /\ error = None
  /\ ~loading
  /\ View = "ticket"


\* C10: every upstream operation is bounded by its timeout: once its timer has
\* been armed, the operation is not pending after the timeout has elapsed,
\* the reading of the response body included.
C10_BoundedByTimeout ==
  (tTimer # "unset" /\ tElapsed > TimeoutSeconds(tOp))
    => tPc \in {"returned", "thrown"}

\* the ticket id the client was called with in this request
RequestTicketId ==
  IF req.route = "search" THEN SearchTicketId ELSE ParseInt(req.id).val
\* what the client reported for the answered fetch
Reported(op) ==
  IF op = "getTicket"
  THEN getTicket(RequestTicketId, Answer(op))
  ELSE getConversations(RequestTicketId, Answer(op))
\* the cause of a failed fetch
CauseClass(o) ==
  CASE o.kind = "abort" -> "timeout"
    [] o.kind = "netfail" -> "network"
    [] o.kind = "http" -> "upstream"
\* the class a reported error names; the runtime's own transport error, passed
\* on unchanged, still names the transport
ReportedClass(e) ==
  IF e.message = <<"Request timeout - Freshdesk API took too long to respond">>
  THEN "timeout"
  ELSE IF \/ e.name = "TypeError"
          \/ e.message = <<"Network error - Unable to connect to Freshdesk API. Check your domain and network connectivity.">>
       THEN "network"
       ELSE "upstream"
FetchFailed(op) ==
  /\ Answered(op)
  /\ ~(Answer(op).kind = "http" /\ ResponseOk(Answer(op).status))

\* C11: in getTicket and getConversations, called by the ticket and the
\* conversations route, a failure is reported in the class of its cause: a timer abort as a timeout, a transport failure as a network
\* error, a non-success status as not-found (404), authentication-failed (401)
\* or a failure carrying the status, whatever the response body contains.
C11_FailureReportedInItsClass ==
  \A op \in {"getTicket", "getConversations"} :
    (OnTicketRoutes /\ op = RouteOp /\ FetchFailed(op))
      => /\ ~Reported(op).ok
         /\ ReportedClass(Reported(op).err) = CauseClass(Answer(op))
         /\ (Answer(op).kind = "http" /\ Answer(op).status = 404)
              => Includes(Reported(op).err.message, "not found")
         /\ (Answer(op).kind = "http" /\ Answer(op).status = 401)
              => Reported(op).err.message
                   = <<"Authentication failed - check your API key and domain">>
         /\ (Answer(op).kind = "http" /\ Answer(op).status \notin {401, 404})
              => SubSeq(Reported(op).err.message, 2, 4)
                   = NumToString(Answer(op).status)

\* the request's input is rejected: an id that is zero or not a number, or a
\* missing search query
InputInvalid ==
  \/ req.route \in {"ticket", "conversations", "attachment"}
       /\ IdZeroOrNonNumeric
  \/ req.route = "search" /\ (~req.q.has \/ req.q.v = <<>>)
\* the upstream payload of a successful fetch is one the handler cannot read
PayloadMalformed ==
  \/ \E op \in Ops : Answered(op) /\ Answer(op).data.shape = "badjson"
  \/ req.route \in {"ticket", "search"}
       /\ Answered("getTicket") /\ Answer("getTicket").data.shape = "null"
  \/ req.route = "conversations"
       /\ Answered("getConversations")
       /\ Answer("getConversations").kind = "http"
       /\ ResponseOk(Answer("getConversations").status)
       /\ Answer("getConversations").data.shape # "array"
  \/ Answered("searchTickets") /\ Answer("searchTickets").data.shape = "null"
OnFailurePath ==
  \/ InputInvalid
  \/ OnTicketRoutes /\ (DomainUnusable \/ ApiKeyUnusable)
  \/ req.route = "attachment" /\ (config.domain = "" \/ config.apiKey = "")
  \/ \E op \in Ops : FetchFailed(op)
  \/ PayloadMalformed
RequestEndsWell ==
  /\ (pc = "done") <=> (resp.status # 0)
  /\ pc = "done"
       => /\ resp.status \in {200, 400, 404, 500}
          /\ resp.status # 200
               => "error" \in resp.fields /\ resp.error # ""
          /\ OnFailurePath => resp.status \in {400, 404, 500}

OpsOfRequest ==
  CASE req.route = "ticket" -> {"getTicket"}
    [] req.route = "conversations" -> {"getConversations"}
    [] req.route = "attachment" -> {"getAttachment"}
    [] req.route = "search" ->
         IF req.type = "domain"
         THEN {"searchTickets"}
         ELSE {"getTicket", "getConversations"}
    [] OTHER -> {}
Invoked == {op \in Ops : calls[op].state # "none"}
\* in a request every operation is invoked at most once, and a failed fetch
\* ends the request with an error response
RequestCallsOnce ==
  /\ Invoked \subseteq OpsOfRequest
  /\ callCount = Cardinality(Invoked)
  /\ \A op \in Ops :
       FetchFailed(op)
         => pc = "done" /\ resp.status \in {404, 500} /\ "error" \in resp.fields
\* a settled fetch is never issued again
RequestNeverRepeats ==
  /\ callCount' # callCount => pc = "idle"
  /\ \A op \in Ops :
       /\ calls[op].state = "settled" => calls'[op] = calls[op]
       /\ calls[op].state = "pending" => calls'[op].state # "none"
LoadRank(l) ==
  CASE l.pc = "ticket" -> 1 [] l.pc = "conv" -> 2 [] l.pc = "done" -> 3
\* a load sends its ticket request once and its conversations request at most
\* once: it only moves forward and an answer it has is never replaced
LoadRequestsOnce ==
  /\ Len(loads') >= Len(loads)
  /\ \A l \in DOMAIN loads :
       /\ loads'[l].id = loads[l].id
       /\ LoadRank(loads'[l]) >= LoadRank(loads[l])
       /\ loads[l].tAns # NoAnswer => loads'[l].tAns = loads[l].tAns
       /\ loads[l].cAns # NoAnswer => loads'[l].cAns = loads[l].cAns
       /\ loads'[l].cAns # NoAnswer => loads'[l].tAns # NoAnswer
  /\ \A l \in DOMAIN loads' \ DOMAIN loads :
       loads'[l] = Load(loads'[l].id, "ticket", NoAnswer, NoAnswer)
TicketRequestFailed(a) ==
  a.kind \in {"throw", "badjson"} \/ (a.kind = "http" /\ ~ResponseOk(a.status))
LoadTicketFailureSurfaced ==
  \A l \in DOMAIN loads :
    (/\ loads[l].pc = "ticket"
     /\ loads'[l].pc # "ticket"
     /\ TicketRequestFailed(loads'[l].tAns))
      => loads'[l].pc = "done" /\ error'.has /\ ~loading'
LoadConversationsFailureSurfaced ==
  \A l \in DOMAIN loads :
    (/\ loads[l].pc = "conv"
     /\ loads'[l].pc = "done"
     /\ ConversationsFailed(loads'[l].cAns))
      => error'.has
LoadConversationsFailureDegrades ==
  \A l \in DOMAIN loads :
    (/\ loads[l].pc = "conv"
     /\ loads'[l].pc = "done"
     /\ ConversationsFailed(loads'[l].cAns))
      => conversations' = 0 /\ error' = error /\ ticket' = ticket /\ ~loading'

\* C13 as stated: within one request and within one dashboard load each
\* upstream operation is invoked at most once, a failed attempt is never
\* repeated, and every failed attempt is surfaced to the caller.
C13_AtMostOnceAndEveryFailureSurfaced ==
  /\ []RequestCallsOnce
  /\ [][/\ RequestNeverRepeats
        /\ LoadRequestsOnce
        /\ LoadTicketFailureSurfaced
        /\ LoadConversationsFailureSurfaced]_vars

\* C13 amended: within one request and within one dashboard load each upstream
\* operation is invoked at most once and a failed attempt is never repeated; a
\* failed fetch of a request and a failed ticket request of a load are
\* surfaced as an error, while a failed conversations request of a load is
\* not: the load ends with the ticket, an empty conversation list and the
\* error unchanged.
C13_AtMostOnceAndFailureSurfacedOrDegraded ==
  /\ []RequestCallsOnce
  /\ [][/\ RequestNeverRepeats
        /\ LoadRequestsOnce
        /\ LoadTicketFailureSurfaced
        /\ LoadConversationsFailureDegrades]_vars

C13_Witness ==
  /\ Len(loads) = 2
  /\ loads[1].pc = "done"
  /\ TicketRequestFailed(loads[1].tAns)
  /\ loads[1].cAns = NoAnswer
  /\ loads[2].pc = "done"
  /\ loads[2].tAns.status = 200
  /\ loads[2].cAns.kind = "throw"
  /\ ticket = loads[2].id
  /\ conversations = 0
  /\ ~loading

Upstream404(op) ==
  Answered(op) /\ Answer(op).kind = "http" /\ Answer(op).status = 404

\* C14: on GET /search with type number or url and an extracted ticket id,
\* the response status is 404 exactly when the upstream answered the ticket or
\* the conversations fetch with HTTP 404; every other upstream failure (401,
\* another non-success status with any body, timeout, network failure) gives
\* 500.
C14_Search404OnlyOnUpstream404 ==
  (/\ pc = "done"
   /\ req.route = "search"
   /\ req.type \in {"number", "url"}
   /\ ~DomainUnusable /\ ~ApiKeyUnusable
   /\ callCount = 2)
    => /\ resp.status = 404
            <=> \E op \in {"getTicket", "getConversations"} : Upstream404(op)
       /\ \A op \in {"getTicket", "getConversations"} :
            (FetchFailed(op) /\ ~Upstream404(op)) => resp.status = 500

\* the query is one or more decimal digits and nothing else
DigitsOnly(q) == Len(q) > 0 /\ \A i \in 1..Len(q) : q[i] \in DigitChars
\* the digits of the leftmost /tickets/<digits> segment of the query; empty
\* when the query has no such segment
SegmentDigits(q) ==
  LET starts == {i \in 1..Len(q) :
                   q[i] = "/tickets/" /\ i < Len(q) /\ q[i + 1] \in DigitChars}
  IN IF starts = {}
     THEN <<>>
     ELSE LET i == CHOOSE x \in starts : \A y \in starts : x <= y
              ends == {j \in (i + 1)..Len(q) :
                         \A k \in (i + 1)..j : q[k] \in DigitChars}
              j == CHOOSE x \in ends : \A y \in ends : x >= y
          IN SubSeq(q, i + 1, j)
NonZeroDigits(ds) == \E i \in 1..Len(ds) : ds[i] # "0"
OnTicketSearch ==
  /\ pc # "idle"
  /\ req.route = "search"
  /\ req.type \in {"number", "url"}
  /\ req.q.has
FetchesIssued ==
  /\ callCount = 2
  /\ calls["getTicket"].state # "none"
  /\ calls["getConversations"].state # "none"
RejectedBeforeUpstream ==
  /\ pc = "done"
  /\ resp.status = 400
  /\ "error" \in resp.fields
  /\ callCount = 0
  /\ \A op \in Ops : calls[op].state = "none"

C16_AttachmentFailureIs500 ==
  req.route = "attachment"
    => /\ pc = "done" => resp.status \in {200, 400, 500}
       /\ (/\ ~IdZeroOrNonNumeric
           /\ config.domain # "" /\ config.apiKey # ""
           /\ FetchFailed("getAttachment"))
            => /\ pc = "done"
               /\ resp.status = 500
               /\ resp.fields = {"error", "details", "attachmentId"}
               /\ resp.error = "Failed to download attachment"

C16_Witness ==
  /\ pc = "done"
  /\ req.route = "attachment"
  /\ Upstream404("getAttachment")
  /\ resp.status = 500
  /\ resp.fields = {"error", "details", "attachmentId"}

\* the status the specification gives for an upstream status code
StatusOfCode(code) ==
  IF ~code.has THEN "open"
  ELSE CASE code.v = 2 -> "open"
         [] code.v = 3 -> "pending"
         [] code.v = 4 -> "resolved"
         [] code.v = 5 -> "closed"
         [] OTHER -> "open"

\* C17: the status of the transformed ticket is open for the upstream status
\* 2, pending for 3, resolved for 4, closed for 5, and open for every other
\* value, 1 and a missing field included.
C17_StatusDecoded ==
  transformedTicket.has
    => transformedTicket.v.status = StatusOfCode(upstreamTicket.v.status)

C17_Witness ==
  /\ transformedTicket.has
  /\ upstreamTicket.v.status = Given(5)
  /\ transformedTicket.v.status = "closed"

\* the priority the specification gives for an upstream priority code
PriorityOfCode(code) ==
  IF ~code.has THEN "medium"
  ELSE CASE code.v = 1 -> "low"
         [] code.v = 2 -> "medium"
         [] code.v = 3 -> "high"
         [] code.v = 4 -> "urgent"
         [] OTHER -> "medium"

\* C18: the priority of the transformed ticket is low for the upstream
\* priority 1, medium for 2, high for 3, urgent for 4, and medium for every
\* other value, a missing field included.
C18_PriorityDecoded ==
  transformedTicket.has
    => transformedTicket.v.priority = PriorityOfCode(upstreamTicket.v.priority)

C18_Witness ==
  /\ transformedTicket.has
  /\ upstreamTicket.v.priority = Given(4)
  /\ transformedTicket.v.priority = "urgent"

\* the payload carries a responder identifier: a positive integer
CarriesResponderId(t) == t.responder_id.has /\ t.responder_id.v > 0
\* the payload gives a responder name: a non-empty text
ResponderNameGiven(t) ==
  /\ t.responder.has
  /\ t.responder.v.name.has
  /\ t.responder.v.name.v # <<>>

\* C19: the transformed ticket has an agent exactly when the upstream ticket
\* carries a responder identifier; the agent's name is the responder name
\* when one is given and "Unassigned" when none is.
C19_AgentIffResponderId ==
  transformedTicket.has
    => /\ transformedTicket.v.agent.has <=> CarriesResponderId(upstreamTicket.v)
       /\ transformedTicket.v.agent.has
            => transformedTicket.v.agent.v.name
                 = IF ResponderNameGiven(upstreamTicket.v)
                   THEN upstreamTicket.v.responder.v.name.v
                   ELSE <<"Unassigned">>

C19_Witness ==
  /\ transformedTicket.has
  /\ upstreamTicket.v.responder_id = Given(7)
  /\ upstreamTicket.v.responder = NoPerson
  /\ transformedTicket.v.agent.has
  /\ transformedTicket.v.agent.v.name = <<"Unassigned">>

\* the explicit user name of a conversation; empty when none is given
ExplicitUserName(c) ==
  IF c.user.has /\ c.user.v.name.has THEN c.user.v.name.v ELSE <<>>
\* the text of the sender email before its first "@" (all of it when it has
\* no "@"); empty when there is no sender email
TextBeforeAt(c) ==
  IF ~c.from_email.has
  THEN <<>>
  ELSE LET e == c.from_email.v
           ats == {k \in 1..Len(e) : e[k] = "@"}
       IN IF ats = {}
          THEN e
          ELSE SubSeq(e, 1, (CHOOSE k \in ats : \A m \in ats : k <= m) - 1)

\* C20: the author name of a transformed conversation is the explicit user
\* name when one is given; otherwise the text before "@" in the sender email
\* when that text is not empty; otherwise "Unknown"; it is never empty.
C20_AuthorNameResolved ==
  transformedConversation.has
    => /\ transformedConversation.v.user.name
            = IF ExplicitUserName(upstreamConversation.v) # <<>>
              THEN ExplicitUserName(upstreamConversation.v)
              ELSE IF TextBeforeAt(upstreamConversation.v) # <<>>
                   THEN TextBeforeAt(upstreamConversation.v)
                   ELSE <<"Unknown">>
       /\ transformedConversation.v.user.name # <<>>

C20_Witness ==
  /\ transformedConversation.has
  /\ ~upstreamConversation.v.user.has
  /\ upstreamConversation.v.from_email = Some(<<"@", "example.com">>)
  /\ transformedConversation.v.user.name = <<"Unknown">>

\* the response carries a ticket record
ReturnsTicket ==
  /\ pc = "done"
  /\ resp.status = 200
  /\ ~DomainUnusable /\ ~ApiKeyUnusable
  /\ \/ req.route = "ticket"
     \/ req.route = "search" /\ req.type \in {"number", "url"}

\* C21: every ticket returned in a 200 response, by GET /tickets/{id} and in
\* the {ticket, conversations} body of GET /search, is a transformed ticket:
\* its status is one of open, pending, resolved, closed and its priority one
\* of low, medium, high, urgent, never the upstream's numeric code.
C21_ReturnedTicketIsNormalized ==
  ReturnsTicket
    => /\ resp.ticket.shape = "transformedTicket"
       /\ resp.ticket.norm.status \in {"open", "pending", "resolved", "closed"}
       /\ resp.ticket.norm.priority \in {"low", "medium", "high", "urgent"}

\* C22: every getTicket, getConversations or getAttachment call a route
\* handler issues carries a positive integer id: a request whose id path
\* parameter is negative issues no call.
C22_CallsCarryPositiveId ==
  (/\ req.route \in {"ticket", "conversations", "attachment"}
   /\ \E op \in Ops : calls[op].state # "none")
    => ~ParseInt(req.id).nan /\ ParseInt(req.id).val > 0

\* the text is a base64 text: groups of four characters of the alphabet,
\* padded with "=" at the end only
IsBase64Text(e) ==
  /\ Len(e) % 4 = 0
  /\ \A i \in 1..Len(e) :
       \/ \E x \in 1..64 : Base64Chars[x] = e[i]
       \/ e[i] = "=" /\ i > Len(e) - 2 /\ \A j \in i..Len(e) : e[j] = "="
\* the bytes a base64 text stands for
BytesOfBase64(e) ==
  LET pad == Cardinality({i \in 1..Len(e) : e[i] = "="})
      six(i) == IF e[i] = "="
                THEN 0
                ELSE (CHOOSE x \in 1..64 : Base64Chars[x] = e[i]) - 1
      v(g) == six(4 * g + 1) * 262144 + six(4 * g + 2) * 4096
                + six(4 * g + 3) * 64 + six(4 * g + 4)
      byte(g, r) == CASE r = 0 -> v(g) \div 65536
                      [] r = 1 -> (v(g) \div 256) % 256
                      [] r = 2 -> v(g) % 256
  IN [k \in 1..(3 * (Len(e) \div 4) - pad) |->
        byte((k - 1) \div 3, (k - 1) % 3)]
\* the bytes of the credential: the API key followed by ":X"
CredentialBytes(apiKey) ==
  [i \in 1..(Len(apiKey) + 2) |->
     IF i <= Len(apiKey) THEN CharCode(apiKey[i])
     ELSE IF i = Len(apiKey) + 1 THEN 58 ELSE 88]

\* C23: every request the client hands to fetch, for each of its four
\* operations, carries an Authorization header that is "Basic " followed by
\* the base64 text of the configured API key and ":X"; a request exists only
\* when one was sent.
C23_EveryRequestCarriesBasicAuth ==
  /\ request.op # "none" <=> clientPc = "sent"
  /\ clientPc = "sent"
       => /\ request.headers.Authorization.has
          /\ Len(request.headers.Authorization.v) > 0
          /\ Head(request.headers.Authorization.v) = "Basic "
          /\ IsBase64Text(Tail(request.headers.Authorization.v))
          /\ BytesOfBase64(Tail(request.headers.Authorization.v))
               = CredentialBytes(clientConfig.apiKey)

C23_Witness ==
  /\ clientPc = "sent"
  /\ request.op = "getAttachment"
  /\ clientConfig.apiKey = <<"k", "9">>
  /\ request.headers.Authorization
       = Some(<<"Basic ", "a", "z", "k", "6", "W", "A", "=", "=">>)
  /\ ~request.headers.ContentType.has

\* the domain without the suffix ".freshdesk.com" at its end, if it ends so
WithoutTrailingSuffix(d) ==
  IF Len(d) > 0 /\ d[Len(d)] = ".freshdesk.com"
  THEN SubSeq(d, 1, Len(d) - 1)
  ELSE d

\* C24: the base URL of a client is https://D.freshdesk.com/api/v2, where D
\* is the configured domain with the suffix ".freshdesk.com" stripped from
\* its end when it ends with it, and nothing else stripped; so a domain D and
\* the domain D.freshdesk.com give the same base URL.
C24_BaseUrlStripsTrailingSuffixOnly ==
  clientPc # "new"
    => baseUrl = <<"https://">> \o WithoutTrailingSuffix(clientConfig.domain)
                   \o <<".freshdesk.com/api/v2">>

\* the effect of the last selection has run
EffectsFlushed == depTicketId = currentTicketId

\* C25: once the effect of the last selection has run, the dashboard renders
\* the "Ticket Not Found" screen only when a load has finished in failure,
\* that is with error set; in particular not after a domain search that
\* found tickets.
C25_ErrorScreenOnlyAfterFailedLoad ==
  (EffectsFlushed /\ View = "error") => error.has

\* a load other than the one of the current selection
StaleLoad(l) == loads[l].id # currentTicketId \/ l # Len(loads)

\* no answer to a load of an earlier selection changes the ticket, the
\* conversations, the error or the loading state
StaleAnswerChangesNothing ==
  \A l \in DOMAIN loads :
    (StaleLoad(l) /\ loads'[l] # loads[l])
      => /\ ticket' = ticket
         /\ conversations' = conversations
         /\ error' = error
         /\ loading' = loading

\* C26 as stated: whenever the dashboard is not loading and holds a ticket,
\* the ticket's id is the current ticket id; and no answer to a load of an
\* earlier selection changes the state of a later selection.
C26_HeldTicketIsAlwaysCurrent ==
  /\ []((~loading /\ ticket # 0) => ticket = currentTicketId)
  /\ [][StaleAnswerChangesNothing]_vars

\* C26 amended: once the effect of the last selection has run, a dashboard
\* that is not loading and holds a ticket holds the ticket of the current
\* selection; and no answer to a load of an earlier selection changes the
\* ticket, the conversations, the error or the loading state.
C26_HeldTicketIsCurrentOnceEffectRan ==
  /\ []((EffectsFlushed /\ ~loading /\ ticket # 0) => ticket = currentTicketId)
  /\ [][StaleAnswerChangesNothing]_vars

C26_Witness ==
  /\ Len(loads) = 2
  /\ loads[1].id # loads[2].id
  /\ loads[1].pc = "done"
  /\ loads[1].tAns.status = 200
  /\ loads[2].pc = "done"
  /\ loads[2].tAns.status = 200
  /\ EffectsFlushed
  /\ ~loading
  /\ ticket = loads[2].id
  /\ currentTicketId = loads[2].id

\* the answer of a fetch, whether the handler used it or discarded it
Completed(op) == calls[op].state \in {"settled", "discarded"}
\* the status GET /search answers with when fetch `first` completes before
\* the other one
SearchStatusWhenFirst(first) ==
  LET t == getTicket(SearchTicketId, calls["getTicket"].outcome)
      c == getConversations(SearchTicketId, calls["getConversations"].outcome)
      a == IF first = "getTicket" THEN t ELSE c
      b == IF first = "getTicket" THEN c ELSE t
  IN IF ~a.ok THEN SearchCatch(a.err).status
     ELSE IF ~b.ok THEN SearchCatch(b.err).status
     ELSE SearchBothResult(t.data, c.data).status

\* C27: on GET /search with type number or url, once the upstream has
\* answered both fetches with a non-success status and an empty body, the
\* response status is the one the same two upstream answers
\* give in either order of completion.
C27_SearchStatusIndependentOfOrder ==
  (/\ OnTicketSearch
   /\ pc = "done"
   /\ ~DomainUnusable /\ ~ApiKeyUnusable
   /\ Completed("getTicket")
   /\ Completed("getConversations")
   /\ \A op \in {"getTicket", "getConversations"} :
        /\ calls[op].outcome.kind = "http"
        /\ ~ResponseOk(calls[op].outcome.status)
        /\ calls[op].outcome.body = <<>>)
    => \A first \in {"getTicket", "getConversations"} :
         resp.status = SearchStatusWhenFirst(first)

\* TicketSearch renders its result list when it is mounted and holds at least
\* one result; the results it holds are the ones it passed to onTicketsFound
ResultListDisplayed == View = "search" /\ searchResults > 0

\* C28: after a domain search that returned at least one result, and while no
\* ticket is selected, the result list is displayed (so that a result can be
\* selected).
C28_ResultListDisplayedAfterDomainSearch ==
  (searchResults > 0 /\ currentTicketId = 0 /\ EffectsFlushed)
    => ResultListDisplayed

\* load l receives its last answer in this step
LoadEnds(l) == loads[l].pc # "done" /\ loads'[l].pc = "done"
LoadedOutcome == ticket # 0 /\ ~error.has
FailedOutcome == error.has /\ ticket = 0 /\ conversations = 0

\* C29: the step in which a dashboard load receives its last answer leaves
\* loading false and either the ticket set and the error null, or the error
\* set, the ticket null and the conversation list empty, never both; and
\* loading is false whenever every load that was started has been answered.
C29_LoadEndsLoadedOrFailed ==
  /\ [][\A l \in DOMAIN loads :
          LoadEnds(l) => /\ ~loading'
                         /\ LoadedOutcome' # FailedOutcome']_vars
  /\ []((\A l \in DOMAIN loads : loads[l].pc = "done") => ~loading)

C29_Witness ==
  /\ Len(loads) = 2
  /\ loads[1].pc = "done"
  /\ loads[1].tAns.status = 200
  /\ loads[1].cAns.status = 200
  /\ loads[1].cAns.n = 2
  /\ loads[2].pc = "done"
  /\ TicketRequestFailed(loads[2].tAns)
  /\ ~loading
  /\ FailedOutcome

\* the conversations request of a load has been issued
ConversationsRequested(load) == load.pc = "conv" \/ load.cAns # NoAnswer

\* C30: in every dashboard load, the conversations request has been issued
\* only if the ticket request was answered with success; a load whose ticket
\* request failed has ended and has issued no conversations request.
C30_ConversationsOnlyAfterTicketSucceeded ==
  \A l \in DOMAIN loads :
    /\ ConversationsRequested(loads[l])
         => /\ loads[l].tAns # NoAnswer
            /\ ~TicketRequestFailed(loads[l].tAns)
    /\ (loads[l].tAns # NoAnswer /\ TicketRequestFailed(loads[l].tAns))
         => /\ loads[l].pc = "done"
            /\ loads[l].cAns = NoAnswer

C30_Witness ==
  /\ Len(loads) = 2
  /\ loads[1].pc = "done"
  /\ TicketRequestFailed(loads[1].tAns)
  /\ loads[1].cAns = NoAnswer
  /\ loads[2].pc = "conv"
  /\ loads[2].tAns.status = 200
  /\ loads[2].tAns.kind = "http"
  /\ loading

====
